---- MODULE Spec2Model ----
(***************************************************************************)
(* ReceiptAI: the batch-processing queue of ProcessingProvider             *)
(* (src/context/ProcessingContext.tsx) with the extraction adapter and the *)
(* persistence gateway it drives.                                          *)
(*                                                                         *)
(* React state is modelled as the code uses it.  A setState call queues an *)
(* update; the variables queue, logs, isProcessing and lastUpdated hold    *)
(* the state with every queued update applied (updater functions are       *)
(* applied in call order, so this is the value the next render commits).   *)
(* What the callbacks READ is the value of the last render: queueRef is    *)
(* queueRef.current (assigned during render, line 36) and isProcessingSeen *)
(* is the isProcessing constant captured by the closures of clearQueue and *)
(* startProcessing (useCallback deps, lines 62 and 187).  Render commits.  *)
(*                                                                         *)
(* One action is one JavaScript job: the synchronous code between two      *)
(* suspension points, together with the promise continuations it resolves  *)
(* (the continuation of Promise.all runs in the same microtask checkpoint  *)
(* as the last item callback of the slice).                                *)
(***************************************************************************)
EXTENDS Integers, Sequences, FiniteSets, TLC

\* ---------------------------------------------------------------- bounds
MaxItems == 2        \* files ever enqueued (ids 1..MaxItems, never reused)
MaxRuns == 2         \* calls of startProcessing that pass the guard
MaxAdd == 2          \* files handed to one addFiles call
PipelineRuns == 1    \* runs started under SpecPipeline
ScenarioItems == 5   \* files enqueued by the end-to-end scenario
ScenarioLimit == 3   \* concurrentApiCalls of the end-to-end scenario
MaxRetries == 3      \* greatest maxRetries option handed to withRetry
AdapterItems == 2    \* files enqueued under SpecAdapter
LimitItems == 3      \* files enqueued under SpecLimit

\* ------------------------------------------------------------- constants
DefaultConcurrency == 10     \* settings.concurrentApiCalls || 10

\* the DEFAULT_SETTINGS value of concurrentApiCalls
DefaultSetting == 10

\* withRetry's option defaults and the options extractReceiptData passes
InitialDelay == 1000
MaxDelay == 10000
BackoffMultiplier == 2
AdapterMaxRetries == 3

\* values saved for concurrentApiCalls on the Settings page
SettingsValues == {1}

\* the fallback of the Settings page input: parseInt(e.target.value) || 10
InputFallback == 10
MaxSaves == 2

VARIABLES
  queue,             \* useState queue: sequence of QueueItem
  logs,              \* useState logs: sequence of lines
  isProcessing,      \* useState isProcessing
  lastUpdated,       \* useState lastUpdated
  queueRef,          \* queueRef.current: the queue of the last render
  isProcessingSeen,  \* isProcessing as captured by the last render's closures
  concurrentApiCalls,\* the stored setting read by getSettings()
  runs,              \* per call of startProcessing that passed the guard
  tasks,             \* the item callbacks of batch.map that have not returned
  store,             \* the receipts object store: per item, the records put
  nextId,            \* number of queue ids handed out by uuidv4
  nextRun,           \* number of runs started
  extractCalls,      \* per item: calls of extractReceiptData issued
  retry,             \* the withRetry call of the adapter: its locals
  debugLogs,         \* the debugLogs buffer of llmService: withRetry's entries
  receiptsCache,     \* storageService: the cached list (<<>> while null)
  cacheInitialized,  \* storageService: the flag initStorage sets
  dbInstance,        \* indexedDBService: TRUE once a connection is cached
  objectStore,       \* the records of the 'receipts' object store
  transactions,      \* the transactions on the store, in creation order
  saves              \* the calls of initStorage and addReceipt in flight

vars == <<queue, logs, isProcessing, lastUpdated, queueRef, isProcessingSeen,
          concurrentApiCalls, runs, tasks, store, nextId, nextRun,
          extractCalls, retry, debugLogs, receiptsCache, cacheInitialized,
          dbInstance, objectStore, transactions, saves>>

\* the state of the retry executor
executor == <<retry, debugLogs>>

\* the state of the persistence gateway
gateway == <<receiptsCache, cacheInitialized, dbInstance, objectStore,
             transactions, saves>>

ItemIds == 1..(IF ScenarioItems > MaxItems THEN ScenarioItems ELSE MaxItems)
RunIds == 1..MaxRuns

\* ----------------------------------------------------------------- values
\* A message is a sequence of tokens; undefined is the absent error field.
undefined == <<"undefined">>
Falsy(msg) == msg = undefined \/ msg = <<>>

RECURSIVE Join(_, _)
\* Array.prototype.join: the elements with the separator between them
Join(seq, sep) ==
  IF seq = <<>> THEN <<>>
  ELSE IF Len(seq) = 1 THEN <<seq[1]>>
  ELSE <<seq[1], sep>> \o Join(Tail(seq), sep)

\* Array.prototype.slice(0, end)
Slice(seq, end) ==
  LET n == Len(seq)
      e == IF end < 0 THEN (IF n + end < 0 THEN 0 ELSE n + end)
           ELSE (IF end > n THEN n ELSE end)
  IN SubSeq(seq, 1, e)

Ids(seq) == {seq[i].id : i \in DOMAIN seq}

\* the records extractReceiptData may resolve with (llmService.ts spreads the
\* backend's JSON over its own fields, lines 210-214, and returns the default
\* record with the message from its catch): id "" / createdAt 0 / status ""
\* are the falsy (missing) fields, error is the carried message
ExtractResults ==
  {d \in [id : {"", "rid"}, status : {"", "draft", "error"},
          createdAt : {0, 1}, error : {undefined, <<"E_extract">>}] :
     d.error # undefined => d.status = "error"}

\* the records among them that the adapter of part_010 builds: id and createdAt
\* are its own, status is the backend's when the backend sent one
CoreResults ==
  {d \in ExtractResults : /\ d.id # "" /\ d.createdAt # 0 /\ d.status # ""
                          /\ ~Falsy(d.error) = (d.status = "error")}

\* what extractReceiptData rejects with (a fault outside its own try)
ExtractErrors == {<<"E_reject">>}

\* no item callback has a settled await whose continuation has not run yet: a
\* continuation is a microtask of the job that settled the promise, so no
\* other job (a caller's call, a render, another completion) runs before it
NoContinuationQueued == \A t \in tasks : t.pc \in {"extract", "save"}

\* what addReceipt rejects with
SaveErrors == {<<"QuotaExceededError">>}

\* no withRetry call has been made
IdleRetry ==
  [pc |-> "idle", item |-> 0, maxRetries |-> 0, initialDelay |-> 0,
   attempt |-> 0, delay |-> 0, calls |-> 0, sleeps |-> 0, errors |-> <<>>,
   lastError |-> undefined, result |-> "none"]

\* ------------------------------------------------------------ queue store
NewItem(id) == [id |-> id, status |-> "pending", error |-> undefined]

IsPending(item) == item.status = "pending"

\* pendingItems = queueRef.current.filter(i => i.status === 'pending')
PendingItems(q) == SelectSeq(q, IsPending)

\* an update that sets the status and keeps the item's error field
updateItemStatusKeepsError(q, id, status, error) ==
  [i \in DOMAIN q |-> IF q[i].id = id THEN [q[i] EXCEPT !.status = status]
                      ELSE q[i]]

\* an update that puts the item back when the queue no longer holds it
updateItemStatusInserts(q, id, status, error) ==
  IF \E i \in DOMAIN q : q[i].id = id
  THEN [i \in DOMAIN q |->
          IF q[i].id = id THEN [q[i] EXCEPT !.status = status, !.error = error]
          ELSE q[i]]
  ELSE Append(q, [id |-> id, status |-> status, error |-> error])

\* updateItemStatus: setQueue(prev => prev.map(...)) applied to q
updateItemStatus(q, id, status, error) ==
  [i \in DOMAIN q |->
     IF q[i].id = id THEN [q[i] EXCEPT !.status = status, !.error = error]
     ELSE q[i]]

RECURSIVE MarkProcessing(_, _)
\* the updateItemStatus(item.id, 'processing') calls of one batch.map
MarkProcessing(q, batch) ==
  IF batch = <<>> THEN q
  ELSE MarkProcessing(updateItemStatus(q, batch[1].id, "processing", undefined),
                      Tail(batch))

\* the addLog(`Analyzing ...`) calls of one batch.map
AnalyzingLogs(batch) == [i \in DOMAIN batch |-> <<"Analyzing", batch[i].id>>]

\* the callbacks of one batch.map, each suspended at await extractReceiptData
NewTasks(r, batch) ==
  {[run |-> r, item |-> batch[i].id, pc |-> "extract", rendered |-> FALSE,
    data |-> [id |-> "", status |-> "", createdAt |-> 0, error |-> undefined],
    thrown |-> undefined] : i \in DOMAIN batch}

\* const BATCH_SIZE = settings.concurrentApiCalls || 10
BatchSize(setting) == IF setting = 0 THEN DefaultConcurrency ELSE setting

\* a count that leaves out the items in error
processedCountCompletedOnly ==
  Cardinality({i \in DOMAIN queueRef : queueRef[i].status = "completed"})

\* processedCount, computed at render from the rendered queue
processedCount ==
  Cardinality({i \in DOMAIN queueRef :
                 queueRef[i].status \in {"completed", "error"}})

\* ------------------------------------------------------------ batch loop
\* The while loop of startProcessing from its head, with pendingItems already
\* derived, up to the next await (or through finally when nothing is pending).
\* q, lg, tk, ip: queue, logs, tasks, isProcessing as updated so far in this job.
Loop(r, bs, pendingItems, q, lg, tk, ip) ==
  LET batch == Slice(pendingItems, bs) IN
  IF pendingItems = <<>>
  THEN \* finally: setIsProcessing(false); addLog('Processing queue finished.')
       [queue |-> q, logs |-> Append(lg, <<"Processing queue finished.">>),
        tasks |-> tk, isProcessing |-> FALSE, pc |-> "returned", batch |-> <<>>]
  ELSE IF batch = <<>>
  THEN \* Promise.all([]) resolves at once and pendingItems is re-derived unchanged
       [queue |-> q, logs |-> lg, tasks |-> tk, isProcessing |-> ip,
        pc |-> "spinning", batch |-> <<>>]
  ELSE [queue |-> MarkProcessing(q, batch), logs |-> lg \o AnalyzingLogs(batch),
        tasks |-> tk \cup NewTasks(r, batch), isProcessing |-> ip,
        pc |-> "awaiting", batch |-> batch]

\* a run that reads the stored setting again whenever its loop goes on
RunAfterRereads(pc, bs, enq) ==
  IF pc = "returned"
  THEN [pc |-> "returned", BATCH_SIZE |-> 0, outcome |-> "fulfilled",
        enqueued |-> 0]
  ELSE [pc |-> pc, BATCH_SIZE |-> BatchSize(concurrentApiCalls),
        outcome |-> "none", enqueued |-> enq]

\* the run of a startProcessing call after a job that left it at pc: suspended
\* at await Promise.all, or returned through finally with its promise fulfilled
\* (BATCH_SIZE is a local of the call and is gone with it)
\* enqueued: the number of ids handed out when the call was made (the items
\* with a greater id were enqueued while the run was active)
RunAfter(pc, bs, enq) ==
  IF pc = "returned"
  THEN [pc |-> "returned", BATCH_SIZE |-> 0, outcome |-> "fulfilled",
        enqueued |-> 0]
  ELSE [pc |-> pc, BATCH_SIZE |-> bs, outcome |-> "none", enqueued |-> enq]

\* extractCalls after the extractReceiptData calls of a dispatched batch
CountCalls(calls, batch) ==
  [i \in ItemIds |-> IF i \in Ids(batch) THEN calls[i] + 1 ELSE calls[i]]

\* the guard of startProcessing: if (isProcessing) return
StartGuard == ~isProcessingSeen

\* startProcessing past its guard, lines 72-187, up to its first await
StartRun(maxRuns) ==
  /\ nextRun < maxRuns
  /\ LET r == nextRun + 1
         bs == BatchSize(concurrentApiCalls)
         pendingItems == PendingItems(queueRef)
         lg0 == IF pendingItems = <<>>
                THEN << <<"No pending files to process.">> >>
                ELSE << <<"Starting batch processing", Len(pendingItems), bs>> >>
         res == Loop(r, bs, pendingItems, queue, lg0, tasks, TRUE)
     IN /\ queue' = res.queue
        /\ logs' = res.logs
        /\ tasks' = res.tasks
        /\ isProcessing' = res.isProcessing
        /\ runs' = [runs EXCEPT ![r] = RunAfter(res.pc, bs, nextId)]
        /\ extractCalls' = CountCalls(extractCalls, res.batch)
        /\ nextRun' = r
  /\ UNCHANGED <<lastUpdated, queueRef, isProcessingSeen, concurrentApiCalls,
                 store, nextId>>
  /\ UNCHANGED <<executor, gateway>>

\* getSettings() at line 76 either returns the settings or throws: it parses
\* the stored value (JSON.parse) and, without a stored value or with an
\* outdated version, writes to localStorage (setItem), settingsService.ts:65-89
GetSettingsOutcomes == {"returns", "throws"}

\* startProcessing past its guard when getSettings() throws: lines 72-76 ran,
\* the exception leaves the async function before its try block, so the
\* returned promise is rejected and neither catch nor finally runs
StartThrows(maxRuns) ==
  /\ nextRun < maxRuns
  /\ isProcessing' = TRUE
  /\ logs' = <<>>
  /\ runs' = [runs EXCEPT ![nextRun + 1] =
                [pc |-> "returned", BATCH_SIZE |-> 0, outcome |-> "rejected",
                 enqueued |-> 0]]
  /\ nextRun' = nextRun + 1
  /\ UNCHANGED <<queue, lastUpdated, queueRef, isProcessingSeen,
                 concurrentApiCalls, tasks, store, nextId, extractCalls>>
  /\ UNCHANGED <<executor, gateway>>

\* startProcessing, lines 70-187: the guarded return, or the run
StartProcessing(maxRuns, gs) ==
  /\ NoContinuationQueued
  /\ IF ~StartGuard THEN UNCHANGED vars
     ELSE IF gs = "throws" THEN StartThrows(maxRuns)
     ELSE StartRun(maxRuns)

\* ------------------------------------------------------- caller operations
\* addFiles, lines 45-52
\* addFiles, lines 45-52, with n files while at most maxItems ids exist
AddFilesUpTo(n, maxItems) ==
  /\ NoContinuationQueued
  /\ nextId + n <= maxItems
  /\ queue' = queue \o [k \in 1..n |-> NewItem(nextId + k)]
  /\ nextId' = nextId + n
  /\ UNCHANGED <<logs, isProcessing, lastUpdated, queueRef, isProcessingSeen,
                 concurrentApiCalls, runs, tasks, store, nextRun, extractCalls>>
  /\ UNCHANGED <<executor, gateway>>

AddFiles(n) == AddFilesUpTo(n, MaxItems)

\* prev.filter(item => item.id !== id)
RemoveFromQueue(q, id) == LET Other(item) == item.id # id IN SelectSeq(q, Other)

\* removeFile, lines 54-56
RemoveFile(id) ==
  /\ NoContinuationQueued
  /\ queue' = RemoveFromQueue(queue, id)
  /\ UNCHANGED <<logs, isProcessing, lastUpdated, queueRef, isProcessingSeen,
                 concurrentApiCalls, runs, tasks, store, nextId, nextRun,
                 extractCalls>>
  /\ UNCHANGED <<executor, gateway>>

\* the guard of clearQueue: if (isProcessing) return
ClearGuard == ~isProcessingSeen

\* clearQueue, lines 58-62
ClearQueue ==
  /\ NoContinuationQueued
  /\ IF ClearGuard THEN queue' = <<>> /\ logs' = <<>>
     ELSE UNCHANGED <<queue, logs>>
  /\ UNCHANGED <<isProcessing, lastUpdated, queueRef, isProcessingSeen,
                 concurrentApiCalls, runs, tasks, store, nextId, nextRun,
                 extractCalls>>
  /\ UNCHANGED <<executor, gateway>>

\* saveSettings (the Settings page): the stored concurrentApiCalls changes
SaveSettings(v) ==
  /\ NoContinuationQueued
  /\ v # concurrentApiCalls
  /\ concurrentApiCalls' = v
  /\ UNCHANGED <<queue, logs, isProcessing, lastUpdated, queueRef,
                 isProcessingSeen, runs, tasks, store, nextId, nextRun,
                 extractCalls>>
  /\ UNCHANGED <<executor, gateway>>

\* A render of ProcessingProvider commits the queued updates: line 36 assigns
\* queueRef.current and the callbacks are re-created over the new isProcessing.
Render ==
  /\ NoContinuationQueued
  /\ \/ queueRef # queue
     \/ isProcessingSeen # isProcessing
     \/ \E t \in tasks : ~t.rendered
  /\ queueRef' = queue
  /\ isProcessingSeen' = isProcessing
  /\ tasks' = {[t EXCEPT !.rendered = TRUE] : t \in tasks}
  /\ UNCHANGED <<queue, logs, isProcessing, lastUpdated, concurrentApiCalls,
                 runs, store, nextId, nextRun, extractCalls>>
  /\ UNCHANGED <<executor, gateway>>

\* -------------------------------------------------------- item processing
\* extractReceiptData resolves with d.  Its result needs the image upload, the
\* file reads and the network call (each its own task), and the render React
\* scheduled at dispatch runs before those: t.rendered.
ExtractSettle(t, d) ==
  /\ NoContinuationQueued
  /\ t.pc = "extract"
  /\ t.rendered
  /\ tasks' = (tasks \ {t}) \cup {[t EXCEPT !.pc = "extracted", !.data = d]}
  /\ UNCHANGED <<queue, logs, isProcessing, lastUpdated, queueRef,
                 isProcessingSeen, concurrentApiCalls, runs, store, nextId,
                 nextRun, extractCalls>>
  /\ UNCHANGED <<executor, gateway>>

\* extractReceiptData rejects with e
ExtractReject(t, e) ==
  /\ NoContinuationQueued
  /\ t.pc = "extract"
  /\ t.rendered
  /\ tasks' = (tasks \ {t}) \cup {[t EXCEPT !.pc = "extractFailed", !.thrown = e]}
  /\ UNCHANGED <<queue, logs, isProcessing, lastUpdated, queueRef,
                 isProcessingSeen, concurrentApiCalls, runs, store, nextId,
                 nextRun, extractCalls>>
  /\ UNCHANGED <<executor, gateway>>

\* addReceipt settles: the record is put into the object store, or the call
\* rejects with e
SaveSettle(t, ok, e) ==
  /\ NoContinuationQueued
  /\ t.pc = "save"
  /\ IF ok
     THEN /\ store' = [store EXCEPT ![t.item] = @ + 1]
          /\ tasks' = (tasks \ {t}) \cup {[t EXCEPT !.pc = "saved"]}
     ELSE /\ store' = store
          /\ tasks' = (tasks \ {t}) \cup
                        {[t EXCEPT !.pc = "saveFailed", !.thrown = e]}
  /\ UNCHANGED <<queue, logs, isProcessing, lastUpdated, queueRef,
                 isProcessingSeen, concurrentApiCalls, runs, nextId, nextRun,
                 extractCalls>>
  /\ UNCHANGED <<executor, gateway>>

\* const hasRequiredFields = data.id && data.status && data.createdAt
hasRequiredFields(data) ==
  data.id # "" /\ data.status # "" /\ data.createdAt # 0

\* a missing array that never reports createdAt
MissingWithoutCreatedAt(data) ==
  (IF data.id = "" THEN <<"id">> ELSE <<>>)
    \o (IF data.status = "" THEN <<"status">> ELSE <<>>)

\* the missing array, lines 112-115
Missing(data) ==
  (IF data.id = "" THEN <<"id">> ELSE <<>>)
  \o (IF data.status = "" THEN <<"status">> ELSE <<>>)
  \o (IF data.createdAt = 0 THEN <<"createdAt">> ELSE <<>>)

\* `Missing required fields: ${missing.join(', ')}`
MissingMessage(data) == <<"Missing required fields: ">> \o Join(Missing(data), ", ")

\* an error message that ignores what the record carries
ExtractionErrorMessageGeneric(data) == <<"Extraction returned error status">>

\* data.error || 'Extraction returned error status'
ExtractionErrorMessage(data) ==
  IF Falsy(data.error) THEN <<"Extraction returned error status">> ELSE data.error


\* The continuation of one item callback after its await settled, up to its
\* next await or its return, as the effect on queue (q), logs (lg) and
\* lastUpdated (lu), with whether the callback returned and whether it threw
\* (its promise rejected) instead of returning normally.

\* a continuation that signals the refresh before the save is awaited
OnExtractedTouches(t, q, lg, lu) ==
  IF ~hasRequiredFields(t.data)
  THEN [queue |-> updateItemStatus(q, t.item, "error", MissingMessage(t.data)),
        logs |-> Append(lg, <<"Validation failed", t.item, Join(Missing(t.data), ", ")>>),
        lastUpdated |-> lu, returns |-> TRUE, throws |-> FALSE, pc |-> "done"]
  ELSE IF t.data.status = "error"
  THEN [queue |-> updateItemStatus(q, t.item, "error", ExtractionErrorMessage(t.data)),
        logs |-> Append(lg, <<"Extraction error", t.item,
                   IF Falsy(t.data.error) THEN <<"Unknown error">> ELSE t.data.error>>),
        lastUpdated |-> lu, returns |-> TRUE, throws |-> FALSE, pc |-> "done"]
  ELSE [queue |-> q, logs |-> lg, lastUpdated |-> lu + 1, returns |-> FALSE,
        throws |-> FALSE, pc |-> "save"]

\* after await extractReceiptData resolved: lines 109-141
OnExtracted(t, q, lg, lu) ==
  IF ~hasRequiredFields(t.data)
  THEN [queue |-> updateItemStatus(q, t.item, "error", MissingMessage(t.data)),
        logs |-> Append(lg, <<"Validation failed", t.item, Join(Missing(t.data), ", ")>>),
        lastUpdated |-> lu, returns |-> TRUE, throws |-> FALSE, pc |-> "done"]
  ELSE IF t.data.status = "error"
  THEN [queue |-> updateItemStatus(q, t.item, "error", ExtractionErrorMessage(t.data)),
        logs |-> Append(lg, <<"Extraction error", t.item,
                   IF Falsy(t.data.error) THEN <<"Unknown error">> ELSE t.data.error>>),
        lastUpdated |-> lu, returns |-> TRUE, throws |-> FALSE, pc |-> "done"]
  ELSE \* await addReceipt(data)
       [queue |-> q, logs |-> lg, lastUpdated |-> lu, returns |-> FALSE,
        throws |-> FALSE, pc |-> "save"]

\* a continuation after the save that leaves no line in the log
OnSavedUnlogged(t, q, lg, lu) ==
  [queue |-> updateItemStatus(q, t.item, "completed", undefined),
   logs |-> lg,
   lastUpdated |-> lu + 1, returns |-> TRUE, throws |-> FALSE, pc |-> "done"]

\* after await addReceipt resolved: lines 156-161
OnSaved(t, q, lg, lu) ==
  [queue |-> updateItemStatus(q, t.item, "completed", undefined),
   logs |-> Append(lg, <<"Successfully processed", t.item>>),
   lastUpdated |-> lu + 1, returns |-> TRUE, throws |-> FALSE, pc |-> "done"]

\* a catch that marks the item and throws the error on, out of the callback
OnCaughtRethrows(t, q, lg, lu) ==
  [queue |-> updateItemStatus(q, t.item, "error", t.thrown),
   logs |-> Append(lg, <<"Critical failure", t.item, t.thrown>>),
   lastUpdated |-> lu, returns |-> TRUE, throws |-> TRUE, pc |-> "done"]

\* a catch that reports the item completed and the data updated
OnCaughtCompletes(t, q, lg, lu) ==
  [queue |-> updateItemStatus(q, t.item, "completed", undefined),
   logs |-> Append(lg, <<"Successfully processed", t.item>>),
   lastUpdated |-> lu + 1, returns |-> TRUE, throws |-> FALSE, pc |-> "done"]

\* the catch of the item callback, lines 163-174, after extractReceiptData
\* rejected or addReceipt rejected (throw dbError)
OnCaught(t, q, lg, lu) ==
  [queue |-> updateItemStatus(q, t.item, "error", t.thrown),
   logs |-> Append(lg, <<"Critical failure", t.item, t.thrown>>),
   lastUpdated |-> lu, returns |-> TRUE, throws |-> FALSE, pc |-> "done"]

ItemStep(t, q, lg, lu) ==
  IF t.pc = "extracted" THEN OnExtracted(t, q, lg, lu)
  ELSE IF t.pc = "saved" THEN OnSaved(t, q, lg, lu)
  ELSE OnCaught(t, q, lg, lu)

\* a call of startProcessing that has not returned yet
RunActive(r) == runs[r].pc \in {"awaiting", "spinning"}

\* a Promise.all that resolves as soon as one callback has returned
AnySettled(r, rest) == TRUE

\* Promise.all(batch.map(...)) of run r resolves once every callback of the
\* batch has returned: none of them is left among the callbacks in flight
AllSettled(r, rest) == ~\E u \in rest : u.run = r

\* the outer catch and finally, lines 180-186, after Promise.all rejected
Interrupted(q, lg, tk) ==
  [queue |-> q,
   logs |-> lg \o << <<"Batch processing interrupted by system error.">>,
                     <<"Processing queue finished.">> >>,
   tasks |-> tk, isProcessing |-> FALSE, pc |-> "returned", batch |-> <<>>]

\* One item callback resumes.  When it is the last of its batch to return,
\* Promise.all resolves and the loop of its run goes on in the same job:
\* pendingItems is re-derived from queueRef.current (line 178).  When it
\* throws, Promise.all rejects at once and the run ends through catch and
\* finally while the other callbacks of the batch go on.
ItemContinue(t) ==
  /\ t.pc \in {"extracted", "extractFailed", "saved", "saveFailed"}
  /\ LET st == ItemStep(t, queue, logs, lastUpdated)
         r == t.run
         rest == tasks \ {t}
         joined == st.returns /\ AllSettled(r, rest)
         res == IF st.throws /\ RunActive(r)
                THEN Interrupted(st.queue, st.logs, rest)
                ELSE IF joined /\ RunActive(r)
                THEN Loop(r, runs[r].BATCH_SIZE, PendingItems(queueRef),
                          st.queue, st.logs, rest, isProcessing)
                ELSE [queue |-> st.queue, logs |-> st.logs,
                      tasks |-> IF st.returns THEN rest
                                ELSE rest \cup {[t EXCEPT !.pc = st.pc]},
                      isProcessing |-> isProcessing, pc |-> runs[r].pc,
                      batch |-> <<>>]
     IN /\ queue' = res.queue
        /\ logs' = res.logs
        /\ tasks' = res.tasks
        /\ isProcessing' = res.isProcessing
        /\ lastUpdated' = st.lastUpdated
        /\ runs' = [runs EXCEPT ![r] = IF RunActive(r)
                                       THEN RunAfter(res.pc, @.BATCH_SIZE, @.enqueued)
                                       ELSE @]
        /\ extractCalls' = CountCalls(extractCalls, res.batch)
  /\ UNCHANGED <<queueRef, isProcessingSeen, concurrentApiCalls, store, nextId,
                 nextRun>>
  /\ UNCHANGED <<executor, gateway>>

\* -------------------------------------------------------- retry executor
\* withRetry of the adapter module, part_010 lines 40-98.  A message is the
\* sequence of its words; String.prototype.includes(w) finds the word w.
Includes(msg, w) == \E k \in DOMAIN msg : msg[k] = w

RetryablePatterns ==
  {"fetch", "network", "timeout", "500", "502", "503", "504", "429",
   "ECONNRESET", "ETIMEDOUT"}

\* a classification that retries every error
IsRetryableAlways(msg) == TRUE

\* const isRetryable = lastError.message.includes('fetch') || ...
IsRetryable(msg) == \E w \in RetryablePatterns : Includes(msg, w)

Min(a, b) == IF a < b THEN a ELSE b

\* the variables of the queue, which the executor does not touch
scheduler == <<queue, logs, isProcessing, lastUpdated, queueRef,
               isProcessingSeen, concurrentApiCalls, runs, store, nextId,
               nextRun, extractCalls, gateway>>

\* ----------------------------------------------------- persistence gateway
\* storageService.addReceipt over indexedDBService, call by call.  The
\* scheduler's specifications resolve a save in one step (SaveSettle); here
\* every await of it is a step of its own.

\* the variables the gateway does not touch
pipeline == <<queue, logs, isProcessing, lastUpdated, queueRef,
              isProcessingSeen, concurrentApiCalls, runs, tasks, store,
              nextId, nextRun, extractCalls, retry, debugLogs>>

\* call 0 is the provider's initStorage(); calls 1..MaxSaves are addReceipt
SaveIds == 0..MaxSaves
CreatedAts == {1, 2}
NoRecord == [id |-> 0, createdAt |-> 0]
IdleSave == [pc |-> "notCalled", stage |-> "none", record |-> NoRecord]

InitGateway ==
  /\ receiptsCache = <<>>
  /\ cacheInitialized = FALSE
  /\ dbInstance = FALSE
  /\ objectStore = {}
  /\ transactions = <<>>
  /\ saves = [c \in SaveIds |-> IdleSave]

getReceipts == receiptsCache

\* store.put(receipt) on a store with keyPath 'id'
Put(records, receipt) == {r \in records : r.id # receipt.id} \cup {receipt}

\* store.getAll(): the records in key order
RECURSIVE KeyOrder(_)
KeyOrder(records) ==
  IF records = {} THEN <<>>
  ELSE LET first == CHOOSE r \in records : \A x \in records : r.id <= x.id
       IN <<first>> \o KeyOrder(records \ {first})

\* result.sort((a, b) => b.createdAt - a.createdAt): stable, newest first
RECURSIVE SortNewestFirst(_)
SortNewestFirst(list) ==
  IF list = <<>> THEN <<>>
  ELSE LET rest == SortNewestFirst(SubSeq(list, 1, Len(list) - 1))
           last == list[Len(list)]
           keep == Cardinality({i \in DOMAIN rest :
                                  rest[i].createdAt >= last.createdAt})
       IN SubSeq(rest, 1, keep) \o <<last>> \o SubSeq(rest, keep + 1, Len(rest))

getAllReceipts(records) == SortNewestFirst(KeyOrder(records))

\* db.transaction(STORE_NAME, mode) with its single request
Mode(stage) == IF stage = "put" THEN "readwrite" ELSE "readonly"
Transaction(c, stage, receipt) ==
  [owner |-> c, mode |-> Mode(stage), pc |-> "pending",
   record |-> receipt, result |-> <<>>]

\* the engine starts every transaction regardless of the others
CanStartUnordered(k) == TRUE

\* a readwrite transaction starts when every transaction created before it
\* has finished, a readonly one when every earlier readwrite one has
CanStart(k) ==
  \A j \in 1..(k - 1) :
    (transactions[k].mode = "readwrite" \/ transactions[j].mode = "readwrite")
      => transactions[j].pc = "finished"

\* openDB() followed by db.transaction(): call c, updated to cs, enters a
\* stage over the transactions txs
Enter(c, stage, cs, txs) ==
  IF dbInstance
    THEN /\ saves' = [cs EXCEPT ![c].pc = "waiting", ![c].stage = stage]
         /\ transactions' = Append(txs, Transaction(c, stage, cs[c].record))
    ELSE /\ saves' = [cs EXCEPT ![c].pc = "opening", ![c].stage = stage]
         /\ transactions' = txs

\* the provider's mount effect calls initStorage()
InitStorageCall ==
  /\ saves[0].pc = "notCalled"
  /\ IF cacheInitialized
       THEN /\ saves' = [saves EXCEPT ![0].pc = "resolved"]
            /\ transactions' = transactions
       ELSE Enter(0, "init", saves, transactions)
  /\ UNCHANGED <<receiptsCache, cacheInitialized, dbInstance, objectStore>>
  /\ UNCHANGED pipeline

\* addReceipt(receipt) up to its first request: initStorage() returns at once
\* when the cache is initialised, and reads the store otherwise
AddReceiptCall(c, createdAt) ==
  /\ c # 0
  /\ saves[c].pc = "notCalled"
  /\ \A b \in 1..(c - 1) : saves[b].pc # "notCalled"
  /\ LET cs == [saves EXCEPT ![c].record = [id |-> c, createdAt |-> createdAt]]
     IN Enter(c, IF cacheInitialized THEN "put" ELSE "init", cs, transactions)
  /\ UNCHANGED <<receiptsCache, cacheInitialized, dbInstance, objectStore>>
  /\ UNCHANGED pipeline

\* indexedDB.open succeeds for call c: the connection is cached and the
\* call's transaction is created
OpenSuccess(c) ==
  /\ saves[c].pc = "opening"
  /\ dbInstance' = TRUE
  /\ saves' = [saves EXCEPT ![c].pc = "waiting"]
  /\ transactions' = Append(transactions,
                             Transaction(c, saves[c].stage, saves[c].record))
  /\ UNCHANGED <<receiptsCache, cacheInitialized, objectStore>>
  /\ UNCHANGED pipeline

\* the engine runs the request of transaction k
TransactionRuns(k) ==
  /\ transactions[k].pc = "pending"
  /\ CanStart(k)
  /\ IF transactions[k].mode = "readwrite"
       THEN /\ objectStore' = Put(objectStore, transactions[k].record)
            /\ transactions' = [transactions EXCEPT ![k].pc = "done"]
       ELSE /\ objectStore' = objectStore
            /\ transactions' =
                 [transactions EXCEPT ![k].pc = "done",
                                      ![k].result = getAllReceipts(objectStore)]
  /\ UNCHANGED <<receiptsCache, cacheInitialized, dbInstance, saves>>
  /\ UNCHANGED pipeline

\* receiptsCache = await getAllReceipts() of addReceipt
Refreshed(cache, result) == result

\* request.onsuccess of transaction k: the owner's promise resolves and the
\* owner runs on to its next request or to its return; the transaction, left
\* without requests, finishes
RequestSuccess(k) ==
  /\ transactions[k].pc = "done"
  /\ LET c == transactions[k].owner
         txs == [transactions EXCEPT ![k].pc = "finished"]
     IN CASE saves[c].stage = "init" ->
               /\ receiptsCache' = transactions[k].result
               /\ cacheInitialized' = TRUE
               /\ IF c = 0
                    THEN /\ saves' = [saves EXCEPT ![c].pc = "resolved"]
                         /\ transactions' = txs
                    ELSE Enter(c, "put", saves, txs)
          [] saves[c].stage = "put" ->
               /\ Enter(c, "read", saves, txs)
               /\ UNCHANGED <<receiptsCache, cacheInitialized>>
          [] saves[c].stage = "read" ->
               /\ receiptsCache' = Refreshed(receiptsCache, transactions[k].result)
               /\ saves' = [saves EXCEPT ![c].pc = "resolved"]
               /\ transactions' = txs
               /\ UNCHANGED cacheInitialized
  /\ UNCHANGED <<dbInstance, objectStore>>
  /\ UNCHANGED pipeline

NextGateway ==
  \/ InitStorageCall
  \/ \E c \in SaveIds : \E createdAt \in CreatedAts : AddReceiptCall(c, createdAt)
  \/ \E c \in SaveIds : OpenSuccess(c)
  \/ \E k \in DOMAIN transactions : TransactionRuns(k)
  \/ \E k \in DOMAIN transactions : RequestSuccess(k)

\* withRetry(fn, {maxRetries: n, initialDelay: d}) up to its first await:
\* attempt 0 invokes fn
StartRetry(item, n, d) ==
  [pc |-> "calling", item |-> item, maxRetries |-> n, initialDelay |-> d,
   attempt |-> 0, delay |-> d, calls |-> 1, sleeps |-> 0, errors |-> <<>>,
   lastError |-> undefined, result |-> "none"]

\* return await fn(): fn resolved with v
Resolved(rt, v) == [rt EXCEPT !.pc = "returned", !.result = v]

\* a catch block that gives up one attempt early
RejectedGivesUpEarly(rt, e) ==
  IF ~IsRetryable(e) \/ rt.attempt + 1 >= rt.maxRetries
  THEN [retry |-> [rt EXCEPT !.pc = "threw", !.lastError = e,
                             !.errors = Append(@, e)],
        entries |-> << <<"error", "Request failed after", rt.attempt, e>> >>]
  ELSE LET d == Min(rt.delay * BackoffMultiplier, MaxDelay) IN
       [retry |-> [rt EXCEPT !.pc = "sleeping", !.lastError = e,
                             !.errors = Append(@, e), !.delay = d,
                             !.attempt = @ + 1, !.sleeps = @ + 1],
        entries |-> << <<"warn", "Request failed, will retry", rt.attempt + 1, e, d>>,
                       <<"info", "Retry attempt", rt.attempt + 1, rt.maxRetries, d>> >>]

\* a catch block that multiplies the delay without the cap of maxDelay
RejectedUncapped(rt, e) ==
  IF ~IsRetryable(e) \/ rt.attempt = rt.maxRetries
  THEN [retry |-> [rt EXCEPT !.pc = "threw", !.lastError = e,
                             !.errors = Append(@, e)],
        entries |-> << <<"error", "Request failed after", rt.attempt, e>> >>]
  ELSE LET d == rt.delay * BackoffMultiplier IN
       [retry |-> [rt EXCEPT !.pc = "sleeping", !.lastError = e,
                             !.errors = Append(@, e), !.delay = d,
                             !.attempt = @ + 1, !.sleeps = @ + 1],
        entries |-> << <<"warn", "Request failed, will retry", rt.attempt + 1, e, d>>,
                       <<"info", "Retry attempt", rt.attempt + 1, rt.maxRetries, d>> >>]

\* fn rejected with e: the catch block, lines 62-94, and, when the error is
\* retried, the head of the next iteration up to await sleep(delay), lines
\* 54-58.  entries: what addDebugLog appends.
Rejected(rt, e) ==
  IF ~IsRetryable(e) \/ rt.attempt = rt.maxRetries
  THEN [retry |-> [rt EXCEPT !.pc = "threw", !.lastError = e,
                             !.errors = Append(@, e)],
        entries |-> << <<"error", "Request failed after", rt.attempt, e>> >>]
  ELSE LET d == Min(rt.delay * BackoffMultiplier, MaxDelay) IN
       [retry |-> [rt EXCEPT !.pc = "sleeping", !.lastError = e,
                             !.errors = Append(@, e), !.delay = d,
                             !.attempt = @ + 1, !.sleeps = @ + 1],
        entries |-> << <<"warn", "Request failed, will retry", rt.attempt + 1, e, d>>,
                       <<"info", "Retry attempt", rt.attempt + 1, rt.maxRetries, d>> >>]

\* sleep(delay) is over: return await fn() invokes fn again
Slept(rt) == [rt EXCEPT !.pc = "calling", !.calls = @ + 1]

\* what an operation handed to withRetry may reject with
OperationErrors ==
  {<<"Request", "timeout">>, <<"HTTP", "503">>, <<"read", "ECONNRESET">>,
   <<"Invalid", "API", "key">>}

\* the initialDelay options: those the callers of withRetry pass (500 for the
\* image upload, 1000 for the extraction call) and one that reaches maxDelay
\* at the first retry
InitialDelays == {500, InitialDelay, 6000}

\* a caller invokes withRetry with the options drawn at Init
CallWithRetry ==
  /\ retry.pc = "idle"
  /\ retry' = StartRetry(0, retry.maxRetries, retry.initialDelay)
  /\ UNCHANGED <<scheduler, tasks, debugLogs>>

OperationResolves ==
  /\ retry.pc = "calling"
  /\ retry.item = 0
  /\ retry' = Resolved(retry, "value")
  /\ UNCHANGED <<scheduler, tasks, debugLogs>>

OperationRejects(e) ==
  /\ retry.pc = "calling"
  /\ retry.item = 0
  /\ retry' = Rejected(retry, e).retry
  /\ debugLogs' = debugLogs \o Rejected(retry, e).entries
  /\ UNCHANGED <<scheduler, tasks>>

SleepDone ==
  /\ NoContinuationQueued
  /\ retry.pc = "sleeping"
  /\ retry' = Slept(retry)
  /\ UNCHANGED <<scheduler, tasks, debugLogs>>

\* the executor alone, for every maxRetries option and every operation
InitRetry ==
  /\ queue = <<>>
  /\ logs = <<>>
  /\ isProcessing = FALSE
  /\ lastUpdated = 0
  /\ queueRef = <<>>
  /\ isProcessingSeen = FALSE
  /\ concurrentApiCalls = DefaultSetting
  /\ runs = [r \in RunIds |-> [pc |-> "notStarted", BATCH_SIZE |-> 0,
                                outcome |-> "none", enqueued |-> 0]]
  /\ tasks = {}
  /\ store = [i \in ItemIds |-> 0]
  /\ nextId = 0
  /\ nextRun = 0
  /\ extractCalls = [i \in ItemIds |-> 0]
  /\ \E n \in 0..MaxRetries : \E d \in InitialDelays :
       retry = [IdleRetry EXCEPT !.maxRetries = n, !.initialDelay = d]
  /\ debugLogs = <<>>
  /\ InitGateway

NextRetry ==
  \/ CallWithRetry
  \/ OperationResolves
  \/ \E e \in OperationErrors : OperationRejects(e)
  \/ SleepDone

SpecRetry == InitRetry /\ [][NextRetry]_vars

\* ------------------------------------------------------ adapter network call
\* extractReceiptData on the OpenAI-compatible path, part_010 lines 435-556:
\* fetch is wrapped in withRetry; the response is inspected after withRetry
\* returned; every throw ends in the catch, which returns an error record.

\* the statuses the backend answers with (fetch resolves for each of them)
HttpStatuses == {"200", "429", "503"}

\* what fetch rejects with: a TypeError of the network layer, a timeout
NetworkErrors == {<<"Failed", "to", "fetch">>, <<"Request", "timeout">>}

\* res.ok
Ok(status) == status = "200"

\* the record extractReceiptData resolves with after the response: the final
\* result, or from its catch the record carrying
\* `LLM Error: ${res.status} - ${errText}` (lines 446-454, 530-556)
ResponseRecord(status) ==
  IF Ok(status)
  THEN [id |-> "rid", status |-> "draft", createdAt |-> 1, error |-> undefined]
  ELSE [id |-> "rid", status |-> "error", createdAt |-> 1,
        error |-> <<"LLM", "Error:", status>>]

\* a catch that reports a message of its own instead of the error's
FailureRecordGeneric(e) ==
  [id |-> "rid", status |-> "error", createdAt |-> 1,
   error |-> <<"Extraction", "failed">>]

\* the record from the catch when withRetry threw e
FailureRecord(e) ==
  [id |-> "rid", status |-> "error", createdAt |-> 1, error |-> e]

\* The JSON object the backend answers with, as far as the record is
\* concerned: which of id, status, createdAt and merchant it holds and with
\* what value ("absent", and -1 for createdAt: the key is not in the object;
\* "" is a falsy value such as null).
BackendBodies ==
  [id : {"absent", "bid"}, status : {"absent", "", "draft", "error", "approved"},
   createdAt : {-1, 7}, merchant : {"absent", "Shop"}]

\* Object.keys(extractedData).length === 0
EmptyBody(body) ==
  /\ body.id = "absent" /\ body.status = "absent"
  /\ body.createdAt = -1 /\ body.merchant = "absent"

\* { own, ...extractedData }: the key of the object literal is replaced by
\* the backend's when the backend sent one
Spread(own, sent, absent) == IF sent = absent THEN own ELSE sent

\* the record extractReceiptData builds from the parsed answer, part_010
\* lines 497-516: the error record for an empty object, else
\* { ...defaultResult, status: 'draft', ...extractedData, id: baseId,
\*   createdAt: Date.now(), rawImage }
FinalResult(body) ==
  IF EmptyBody(body)
  THEN [id |-> "rid", status |-> "error", createdAt |-> 1,
        error |-> <<"No", "data", "extracted", "from", "receipt">>]
  ELSE [id |-> "rid", status |-> Spread("draft", body.status, "absent"),
        createdAt |-> 1, error |-> undefined]

\* the callback of the item the executor is working for resolves with d
Deliver(d) ==
  {IF t.item = retry.item /\ t.pc = "extract"
   THEN [t EXCEPT !.pc = "extracted", !.data = d] ELSE t : t \in tasks}

\* extractReceiptData reaches its network call: withRetry(() => fetch(...),
\* { maxRetries: 3, initialDelay: 1000 })
AdapterFetch(t) ==
  /\ NoContinuationQueued
  /\ t.pc = "extract"
  /\ t.rendered
  /\ retry.pc \in {"idle", "returned", "threw"}
  /\ retry.item # t.item
  /\ retry' = StartRetry(t.item, AdapterMaxRetries, InitialDelay)
  /\ UNCHANGED <<scheduler, tasks, debugLogs>>

\* the backend answers: fetch resolves, withRetry returns the response
FetchResolves(status) ==
  /\ NoContinuationQueued
  /\ retry.pc = "calling"
  /\ retry.item # 0
  /\ retry' = Resolved(retry, status)
  /\ tasks' = Deliver(ResponseRecord(status))
  /\ UNCHANGED <<scheduler, debugLogs>>

\* fetch rejects with e
FetchRejects(e) ==
  /\ NoContinuationQueued
  /\ retry.pc = "calling"
  /\ retry.item # 0
  /\ LET r == Rejected(retry, e) IN
       /\ retry' = r.retry
       /\ debugLogs' = debugLogs \o r.entries
       /\ tasks' = IF r.retry.pc = "threw" THEN Deliver(FailureRecord(e))
                   ELSE tasks
  /\ UNCHANGED scheduler

\* ----------------------------------------------------------- specification
Init ==
  /\ queue = <<>>
  /\ logs = <<>>
  /\ isProcessing = FALSE
  /\ lastUpdated = 0
  /\ queueRef = <<>>
  /\ isProcessingSeen = FALSE
  /\ concurrentApiCalls = DefaultSetting
  /\ runs = [r \in RunIds |-> [pc |-> "notStarted", BATCH_SIZE |-> 0,
                                outcome |-> "none", enqueued |-> 0]]
  /\ tasks = {}
  /\ store = [i \in ItemIds |-> 0]
  /\ nextId = 0
  /\ nextRun = 0
  /\ extractCalls = [i \in ItemIds |-> 0]
  /\ retry = IdleRetry
  /\ debugLogs = <<>>
  /\ InitGateway

\* the scheduler under every interleaving of caller calls, renders and
\* completions; the adapter resolves with a draft or with an error record
Next ==
  \/ \E n \in 1..MaxAdd : AddFiles(n)
  \/ \E id \in 1..nextId : RemoveFile(id)
  \/ ClearQueue
  \/ \E gs \in GetSettingsOutcomes : StartProcessing(MaxRuns, gs)
  \/ \E v \in SettingsValues : SaveSettings(v)
  \/ Render
  \/ \E t \in tasks : \E d \in CoreResults : ExtractSettle(t, d)
  \/ \E t \in tasks : \E e \in SaveErrors : \E ok \in BOOLEAN : SaveSettle(t, ok, e)
  \/ \E t \in tasks : ItemContinue(t)

Spec == Init /\ [][Next]_vars

\* the item pipeline under every outcome of the adapter and of the store
NextPipeline ==
  \/ \E n \in 1..MaxAdd : AddFiles(n)
  \/ \E id \in 1..nextId : RemoveFile(id)
  \/ ClearQueue
  \/ \E gs \in GetSettingsOutcomes : StartProcessing(PipelineRuns, gs)
  \/ \E v \in SettingsValues : SaveSettings(v)
  \/ Render
  \/ \E t \in tasks : \E d \in ExtractResults : ExtractSettle(t, d)
  \/ \E t \in tasks : \E e \in ExtractErrors : ExtractReject(t, e)
  \/ \E t \in tasks : \E e \in SaveErrors : \E ok \in BOOLEAN : SaveSettle(t, ok, e)
  \/ \E t \in tasks : ItemContinue(t)

SpecPipeline == Init /\ [][NextPipeline]_vars

\* The item pipeline with what the code's scheduling guarantees: React commits
\* a scheduled render, a settled await resumes its callback; and with what the
\* termination claim assumes: every extraction call and every persistence
\* call settles.
Settles ==
  \E t \in tasks :
    \/ \E d \in ExtractResults : ExtractSettle(t, d)
    \/ \E e \in ExtractErrors : ExtractReject(t, e)
    \/ \E e \in SaveErrors : \E ok \in BOOLEAN : SaveSettle(t, ok, e)

Resumes == \E t \in tasks : ItemContinue(t)

SpecTermination ==
  /\ Init
  /\ [][NextPipeline]_vars
  /\ WF_vars(Render)
  /\ WF_vars(Settles)
  /\ WF_vars(Resumes)

\* The configurations of concurrentApiCalls.  The number input of the Settings
\* page hands parseInt(e.target.value) || 10 to handleChange (its min and max
\* attributes do not constrain what is typed, and the Save button does not
\* validate); settingsService stores and returns the value as it is.
TypedValues == {-1, 0, 2, 50}

HandleChange(typed) == IF typed = 0 THEN InputFallback ELSE typed

\* the values getSettings().concurrentApiCalls can return: what the page
\* saved, and 0 from a stored object that was written otherwise
ConfigValues == {HandleChange(v) : v \in TypedValues} \cup {0}

\* the scheduler under every configuration, with an adapter and a store that
\* succeed or report an error record
NextConfig ==
  \/ \E n \in 1..MaxAdd : AddFiles(n)
  \/ \E v \in ConfigValues : SaveSettings(v)
  \/ StartProcessing(PipelineRuns, "returns")
  \/ Render
  \/ \E t \in tasks : \E d \in CoreResults : ExtractSettle(t, d)
  \/ \E t \in tasks : \E e \in SaveErrors : SaveSettle(t, TRUE, e)
  \/ \E t \in tasks : ItemContinue(t)

SpecConfig == Init /\ [][NextConfig]_vars

\* the queue with the adapter's network call in place of an abstract adapter
NextAdapter ==
  \/ AddFilesUpTo(1, AdapterItems)
  \/ StartProcessing(PipelineRuns, "returns")
  \/ \E v \in SettingsValues : SaveSettings(v)
  \/ Render
  \/ \E t \in tasks : AdapterFetch(t)
  \/ \E status \in HttpStatuses : FetchResolves(status)
  \/ \E e \in NetworkErrors : FetchRejects(e)
  \/ SleepDone
  \/ \E t \in tasks : \E e \in SaveErrors : SaveSettle(t, TRUE, e)
  \/ \E t \in tasks : ItemContinue(t)

SpecAdapter == Init /\ [][NextAdapter]_vars

\* The end-to-end scenario: ScenarioItems files are enqueued in one addFiles
\* call with concurrentApiCalls = ScenarioLimit; the adapter resolves with a
\* draft for every item but the last and with an error record for the last;
\* the store accepts every record.
ScenarioResult(id) ==
  IF id = ScenarioItems
  THEN [id |-> "rid", status |-> "error", createdAt |-> 1,
        error |-> <<"E_extract">>]
  ELSE [id |-> "rid", status |-> "draft", createdAt |-> 1, error |-> undefined]

InitScenario ==
  /\ queue = <<>>
  /\ logs = <<>>
  /\ isProcessing = FALSE
  /\ lastUpdated = 0
  /\ queueRef = <<>>
  /\ isProcessingSeen = FALSE
  /\ concurrentApiCalls = ScenarioLimit
  /\ runs = [r \in RunIds |-> [pc |-> "notStarted", BATCH_SIZE |-> 0,
                                outcome |-> "none", enqueued |-> 0]]
  /\ tasks = {}
  /\ store = [i \in ItemIds |-> 0]
  /\ nextId = 0
  /\ nextRun = 0
  /\ extractCalls = [i \in ItemIds |-> 0]
  /\ retry = IdleRetry
  /\ debugLogs = <<>>
  /\ InitGateway

NextScenario ==
  \/ AddFilesUpTo(ScenarioItems, ScenarioItems)
  \/ StartProcessing(PipelineRuns, "returns")
  \/ Render
  \/ \E t \in tasks : ExtractSettle(t, ScenarioResult(t.item))
  \/ \E t \in tasks : \E e \in SaveErrors : SaveSettle(t, TRUE, e)
  \/ \E t \in tasks : ItemContinue(t)

SpecScenario == InitScenario /\ [][NextScenario]_vars

\* the item pipeline with the records the adapter builds: from every answer
\* of the backend, and from its catch after a failed network call
NextRecord ==
  \/ \E n \in 1..MaxAdd : AddFiles(n)
  \/ StartProcessing(PipelineRuns, "returns")
  \/ Render
  \/ \E t \in tasks : \E body \in BackendBodies : ExtractSettle(t, FinalResult(body))
  \/ \E t \in tasks : \E e \in NetworkErrors : ExtractSettle(t, FailureRecord(e))
  \/ \E t \in tasks : \E e \in SaveErrors : SaveSettle(t, TRUE, e)
  \/ \E t \in tasks : ItemContinue(t)

SpecRecord == Init /\ [][NextRecord]_vars

\* the persistence gateway under every interleaving of its calls with the
\* engine's transactions
SpecGateway == Init /\ [][NextGateway]_vars

\* The scheduler while the stored concurrency limit changes between and
\* during runs; the adapter and the store succeed.
LimitValues == {1, 2}

NextLimit ==
  \/ \E n \in 1..MaxAdd : AddFilesUpTo(n, LimitItems)
  \/ \E v \in LimitValues : SaveSettings(v)
  \/ StartProcessing(MaxRuns, "returns")
  \/ Render
  \/ \E t \in tasks : ExtractSettle(t, ScenarioResult(t.item))
  \/ \E t \in tasks : \E e \in SaveErrors : SaveSettle(t, TRUE, e)
  \/ \E t \in tasks : ItemContinue(t)

SpecLimit == Init /\ [][NextLimit]_vars

\* ------------------------------------------------------------------ claims
\* a call of startProcessing passed the guard and has not returned
ActiveRuns == {r \in RunIds : RunActive(r)}

Terminal == {"completed", "error"}
Processing(q) == {i \in DOMAIN q : q[i].status = "processing"}

\* C1: at most one run is active at a time: a call of startProcessing made
\* while a run is active changes neither the queue, the log nor the flag,
\* issues no extraction call and starts no run.
C1_NoRunStartsWhileActive ==
  [][\A gs \in GetSettingsOutcomes :
       (ActiveRuns # {} /\ StartProcessing(MaxRuns, gs))
         => UNCHANGED <<queue, logs, isProcessing, extractCalls, nextRun>>]_vars

\* C2: exactly-once processing: the extraction adapter is invoked at most once
\* for a queue item (no item of an already dispatched slice is dispatched
\* again).
C2_ExtractedAtMostOnce == \A i \in ItemIds : extractCalls[i] <= 1

\* C3: terminal stability: an item whose status is completed or error keeps
\* its status and its error for as long as it is in the queue.
C3_TerminalStable ==
  [][\A i \in DOMAIN queue : \A j \in DOMAIN queue' :
       (queue[i].status \in Terminal /\ queue'[j].id = queue[i].id)
         => queue'[j] = queue[i]]_vars

\* C4: slice bound: while a run is active, neither the items whose status is
\* processing nor the extraction calls in flight outnumber the concurrency
\* limit the run read.
C4_SliceBound ==
  \A r \in ActiveRuns :
    /\ Cardinality(Processing(queue)) <= runs[r].BATCH_SIZE
    /\ Cardinality({t \in tasks : t.pc = "extract"}) <= runs[r].BATCH_SIZE

\* the items of q with identifier id
Item(q, id) == {q[i] : i \in {k \in DOMAIN q : q[k].id = id}}

\* a call of startProcessing returns in this step
Returns(r) == runs[r].pc # "returned" /\ runs'[r].pc = "returned"

\* C5: a call of startProcessing that passed the guard never rejects and
\* never returns with the flag still set: when it returns, its promise is
\* fulfilled and isProcessing has been set to false.
C5_ReturnsFulfilledInactive ==
  [][\A r \in RunIds :
       Returns(r) => (runs'[r].outcome = "fulfilled" /\ isProcessing' = FALSE)]_vars

\* C6: removeFile removes only a pending item: called for an item that is
\* processing, completed or error, it leaves the queue unchanged.
C6_RemoveOnlyPending ==
  [][\A id \in ItemIds :
       (RemoveFile(id) /\ \E it \in Item(queue, id) : it.status # "pending")
         => queue' = queue]_vars

\* C7: clearQueue is rejected while a run is active (queue and logs stay as
\* they are) and empties both when no run is active.
C7_ClearRejectedWhileActive ==
  [][ClearQueue =>
       IF ActiveRuns # {} THEN UNCHANGED <<queue, logs>>
       ELSE queue' = <<>> /\ logs' = <<>>]_vars

\* the three required fields, and those a record lacks
RequiredFields == {"id", "status", "createdAt"}
Lacking(d) ==
  {f \in RequiredFields :
     \/ f = "id" /\ d.id = ""
     \/ f = "status" /\ d.status = ""
     \/ f = "createdAt" /\ d.createdAt = 0}
\* the field names a message lists
NamesIn(msg) == {msg[k] : k \in DOMAIN msg} \cap RequiredFields

\* the callback t returns in this step without having called addReceipt
ReturnsUnsaved(t) ==
  /\ store' = store
  /\ ~\E u \in tasks' : u.run = t.run /\ u.item = t.item

\* C8: validation gate: when the extracted record lacks any of id, status,
\* createdAt, the item is set to error with a message that lists exactly the
\* lacking fields, and the record is not saved.
C8_ValidationGate ==
  [][\A t \in tasks :
       (t.pc = "extracted" /\ Lacking(t.data) # {} /\ ItemContinue(t))
         => /\ ReturnsUnsaved(t)
            /\ \A it \in Item(queue', t.item) :
                 /\ it.status = "error"
                 /\ NamesIn(it.error) = Lacking(t.data)
                 /\ Len(it.error) = 2 * Cardinality(Lacking(t.data))]_vars

\* an item failed validation for lacking exactly id and createdAt
C8_Witness ==
  \E i \in DOMAIN queue :
    /\ queue[i].status = "error"
    /\ NamesIn(queue[i].error) = {"id", "createdAt"}
    /\ store[queue[i].id] = 0

\* C9: an item becomes completed only in the continuation of a save that
\* succeeded; when the save threw, the item is set to error with the thrown
\* message, is not completed, and lastUpdated is left alone.
C9_CompletedOnlyAfterSave ==
  [][/\ \A id \in ItemIds :
          (/\ \E it \in Item(queue', id) : it.status = "completed"
           /\ ~\E it \in Item(queue, id) : it.status = "completed")
            => \E t \in tasks : t.item = id /\ t.pc = "saved" /\ store[id] >= 1
     /\ \A t \in tasks :
          (t.pc = "saveFailed" /\ ItemContinue(t))
            => /\ lastUpdated' = lastUpdated
               /\ \A it \in Item(queue', t.item) :
                    it.status = "error" /\ it.error = t.thrown]_vars

\* an item ended in error with the store's message and nothing was saved for it
C9_Witness ==
  \E i \in DOMAIN queue :
    /\ queue[i].status = "error"
    /\ queue[i].error \in SaveErrors
    /\ store[queue[i].id] = 0
    /\ lastUpdated = 0

\* C10: when the adapter returns a complete record whose status is error, the
\* item is set to error with the message the record carries, or with the
\* generic one when it carries none, and the record is not saved.
C10_ErrorRecord ==
  [][\A t \in tasks :
       (/\ t.pc = "extracted" /\ Lacking(t.data) = {}
        /\ t.data.status = "error" /\ ItemContinue(t))
         => /\ ReturnsUnsaved(t)
            /\ \A it \in Item(queue', t.item) :
                 /\ it.status = "error"
                 /\ it.error = IF t.data.error \in {undefined, <<>>}
                               THEN <<"Extraction returned error status">>
                               ELSE t.data.error]_vars

\* one item carries the record's message, another the generic one
C10_Witness ==
  /\ \E i \in DOMAIN queue :
       queue[i].status = "error" /\ queue[i].error = <<"E_extract">>
  /\ \E i \in DOMAIN queue :
       queue[i].status = "error"
       /\ queue[i].error = <<"Extraction returned error status">>
  /\ \A i \in DOMAIN queue : store[queue[i].id] = 0

\* C15: for every queue item the error field is set if and only if the
\* status is error: an error item carries a non-empty reason; pending,
\* processing and completed items carry none.
C15_ErrorIffErrorStatus ==
  \A i \in DOMAIN queue :
    /\ queue[i].status = "error" => ~Falsy(queue[i].error)
    /\ queue[i].status # "error" => queue[i].error = undefined

\* one item ended in error with its reason, another completed without one
C15_Witness ==
  /\ \E i \in DOMAIN queue :
       queue[i].status = "error" /\ queue[i].error = <<"E_reject">>
  /\ \E i \in DOMAIN queue :
       queue[i].status = "completed" /\ queue[i].error = undefined

\* the status changes of the item life cycle
Transitions ==
  {<<"pending", "processing">>, <<"processing", "completed">>,
   <<"processing", "error">>}

\* C16: every status change of a queue item is pending -> processing,
\* processing -> completed or processing -> error, and is made while a run
\* is active (the run that is starting in this step included).
C16_LifeCycle ==
  [][\A i \in DOMAIN queue : \A j \in DOMAIN queue' :
       (queue'[j].id = queue[i].id /\ queue'[j].status # queue[i].status)
         => /\ <<queue[i].status, queue'[j].status>> \in Transitions
            /\ \/ ActiveRuns # {}
               \/ \E r \in RunIds : runs'[r].pc \in {"awaiting", "spinning"}]_vars

\* C14: an item enqueued while a run is active is appended as pending and
\* leaves the items in flight as they are, and the run does not return while
\* such an item is still pending.
C14_EnqueuedDuringRunPickedUp ==
  [][/\ \A n \in 1..MaxAdd :
          (AddFiles(n) /\ ActiveRuns # {})
            => /\ SubSeq(queue', 1, Len(queue)) = queue
               /\ \A k \in Len(queue) + 1 .. Len(queue') :
                    queue'[k].status = "pending"
               /\ tasks' = tasks
     /\ \A r \in RunIds :
          (RunActive(r) /\ runs'[r].pc = "returned")
            => \A j \in DOMAIN queue' :
                 queue'[j].id > runs[r].enqueued
                   => queue'[j].status # "pending"]_vars

\* the callback t is about to end with a fault of its item: the adapter or
\* the store threw, or the record failed validation or reports an error
Fails(t) ==
  \/ t.pc \in {"extractFailed", "saveFailed"}
  \/ t.pc = "extracted" /\ (Lacking(t.data) # {} \/ t.data.status = "error")

\* the callbacks run r dispatches in this step
Dispatched(r) ==
  {u \in tasks' \ tasks : u.run = r /\ u.pc = "extract" /\ ~u.rendered}

C18_SliceSequencing ==
  [][\A r \in RunIds :
       Dispatched(r) # {}
         => /\ \A v \in tasks : v.run = r
                 => /\ ~\E u \in tasks' : u.run = r /\ u.item = v.item /\ u \notin Dispatched(r)
                    /\ \A it \in Item(queue', v.item) :
                         it.status \in Terminal \/ \E u \in Dispatched(r) : u.item = v.item
            /\ \A u \in tasks' : u.run = r => u \in Dispatched(r)
            /\ \A j \in DOMAIN queue' :
                 queue'[j].status = "processing"
                   => \E u \in tasks' : u.item = queue'[j].id]_vars

\* the second slice of the scenario's run is in flight after the first one
\* settled
C18_Witness ==
  /\ Len(queue) = ScenarioItems
  /\ \A i \in 1..ScenarioLimit : queue[i].status \in Terminal
  /\ \A i \in ScenarioLimit + 1 .. ScenarioItems : queue[i].status = "processing"
  /\ \E t \in tasks : t.item = queue[ScenarioItems].id /\ t.pc = "extract"
  /\ \E r \in RunIds : runs[r].pc = "awaiting" /\ runs[r].BATCH_SIZE = ScenarioLimit

\* the lines of lg equal to line
Lines(lg, line) == {k \in DOMAIN lg : lg[k] = line}

\* lines of lg that report a failure of some item
ErrorLines(lg) ==
  {k \in DOMAIN lg :
     lg[k][1] \in {"Extraction error", "Validation failed", "Critical failure"}}

\* the run that found all files of the scenario pending has returned
ScenarioRunDone ==
  /\ logs # <<>>
  /\ logs[1] = <<"Starting batch processing", ScenarioItems, ScenarioLimit>>
  /\ \E r \in RunIds : runs[r].pc = "returned"
  /\ ActiveRuns = {}

AlwaysRetryable == \A k \in DOMAIN retry.errors : IsRetryable(retry.errors[k])

\* C11: retry bound: withRetry with maxRetries = n invokes the operation at
\* most n + 1 times; when every attempt raised a retryable error and the call
\* has thrown, the operation was invoked exactly n + 1 times and the error
\* thrown is the error of the last attempt.
C11_RetryBound ==
  /\ retry.calls <= retry.maxRetries + 1
  /\ (retry.pc = "threw" /\ AlwaysRetryable)
       => /\ retry.calls = retry.maxRetries + 1
          /\ Len(retry.errors) = retry.calls
          /\ retry.lastError = retry.errors[Len(retry.errors)]

\* a call with maxRetries = 2 has thrown after three retryable errors, the
\* last one different from the first
C11_Witness ==
  /\ retry.pc = "threw"
  /\ retry.maxRetries = 2
  /\ retry.calls = 3
  /\ AlwaysRetryable
  /\ retry.errors[1] # retry.errors[3]
  /\ retry.lastError = retry.errors[3]

\* C12: non-retryable short-circuit: when the first attempt raised a
\* non-retryable error, the operation was invoked exactly once, withRetry did
\* not sleep, and it has thrown that error.
C12_ShortCircuit ==
  (retry.errors # <<>> /\ retry.errors[1] = <<"Invalid", "API", "key">>)
    => /\ retry.pc = "threw"
       /\ retry.calls = 1
       /\ retry.sleeps = 0
       /\ retry.lastError = retry.errors[1]

\* a call that allowed three retries threw the non-retryable error at once
C12_Witness ==
  /\ retry.pc = "threw"
  /\ retry.maxRetries = 3
  /\ retry.errors = << <<"Invalid", "API", "key">> >>
  /\ retry.calls = 1

\* the messages an item carries after a transient failure of the network
\* call: a 429 or 5xx response, a connection failure, a timeout
TransientMessages ==
  {<<"LLM", "Error:", "429">>, <<"LLM", "Error:", "503">>,
   <<"Failed", "to", "fetch">>, <<"Request", "timeout">>}

\* C13: a transient failure of the extraction network call (a connection
\* failure or timeout, or a 429/5xx response) is retried: an item is in error
\* for such a failure only when the call was made maxRetries + 1 times.
C13_TransientRetried ==
  \A i \in DOMAIN queue :
    (queue[i].status = "error" /\ queue[i].error \in TransientMessages)
      => retry.item = queue[i].id /\ retry.calls = AdapterMaxRetries + 1

\* the lines of lg that report a retry attempt, with its number and delay
RetryLines(lg) ==
  {k \in DOMAIN lg : lg[k][1] = "Retry attempt" /\ Len(lg[k]) >= 3}

\* C20: end to end: with one item whose network call fails with a timeout
\* twice and succeeds at the third attempt, the item ends completed and the
\* log of the queue shows exactly two retry-attempt lines, then the success
\* line.
C20_RetryVisibleInLog ==
  (/\ retry.pc = "returned"
   /\ retry.result = "200"
   /\ retry.errors = << <<"Request", "timeout">>, <<"Request", "timeout">> >>
   /\ \E r \in RunIds : runs[r].pc = "returned")
    => /\ \A it \in Item(queue, retry.item) : it.status = "completed"
       /\ Cardinality(RetryLines(logs)) = 2
       /\ \E k \in DOMAIN logs :
            /\ logs[k] = <<"Successfully processed", retry.item>>
            /\ \A j \in RetryLines(logs) : j < k

\* the items of q whose status is s
Count(q, s) == Cardinality({i \in DOMAIN q : q[i].status = s})

\* some call of startProcessing has returned and none is active
RunFinished == (\E r \in RunIds : runs[r].pc = "returned") /\ ActiveRuns = {}

\* C21: completion accounting: at every render after a run has finished,
\* processedCount is the number of completed items plus the number of error
\* items of the rendered queue, and the pending and processing items are the
\* rest of it.
C21_CompletionAccounting ==
  RunFinished
    => /\ processedCount = Count(queueRef, "completed") + Count(queueRef, "error")
       /\ processedCount + Count(queueRef, "pending") + Count(queueRef, "processing")
            = Len(queueRef)

\* a run has finished and the render after it shows one item completed and
\* one in error
C21_Witness ==
  /\ RunFinished
  /\ Count(queueRef, "completed") = 1
  /\ Count(queueRef, "error") = 1
  /\ processedCount = 2

\* the log reports a fault of the batch loop itself
LoopFault(lg) ==
  \E k \in DOMAIN lg : lg[k] = <<"Batch processing interrupted by system error.">>

\* C22: isProcessing flips from true to false only when nothing is pending or
\* after a loop-level fault: when a run deactivates without such a fault, no
\* item of the queue has status pending.
C22_DeactivatesWhenNonePending ==
  [][(isProcessing /\ ~isProcessing' /\ ~LoopFault(logs'))
       => \A j \in DOMAIN queue' : queue'[j].status # "pending"]_vars

\* the item id is in the queue with status pending
PendingIn(q, id) == \E it \in Item(q, id) : it.status = "pending"

\* C23: run termination: when every extraction call and every persistence
\* call settles, every call of startProcessing that passed the guard is
\* followed by isProcessing being false, and every item that was pending when
\* an active run started is eventually completed, in error, or removed.
C23_RunTerminates ==
  /\ \A r \in RunIds : (runs[r].pc # "notStarted") ~> ~isProcessing
  /\ \A r \in RunIds : \A id \in 1..MaxItems :
       (RunActive(r) /\ id <= runs[r].enqueued /\ PendingIn(queue, id))
         ~> (\A it \in Item(queue, id) : it.status \in Terminal)

\* C24: loop progress for every configuration: whatever value
\* concurrentApiCalls holds, an iteration of the batch loop that finds pending
\* items takes a non-empty slice of them, so no run is left iterating over
\* an empty slice with items still pending.
C24_LoopProgress == \A r \in RunIds : runs[r].pc # "spinning"

\* C25: whenever isProcessing is false, no queue item has status processing:
\* no item is left in processing after the run has deactivated.
C25_NoneProcessingWhenInactive == ~isProcessing => Processing(queue) = {}

\* the waits withRetry has taken or is taking: the delay of each
\* 'Retry attempt' entry, which is the delay handed to sleep
IsRetryAttempt(entry) == entry[2] = "Retry attempt"
Waits ==
  LET sel == SelectSeq(debugLogs, IsRetryAttempt)
  IN [k \in DOMAIN sel |-> sel[k][5]]

RECURSIVE Pow(_, _)
Pow(b, n) == IF n = 0 THEN 1 ELSE b * Pow(b, n - 1)

\* C26: backoff schedule: the k-th retry of a withRetry call is preceded by a
\* wait of min(initialDelay * backoffMultiplier^(k-1), maxDelay): the first
\* retry waits initialDelay.
C26_BackoffSchedule ==
  \A k \in DOMAIN Waits :
    Waits[k] = Min(retry.initialDelay * Pow(BackoffMultiplier, k - 1), MaxDelay)

Exhausted(t) ==
  /\ t.pc = "extracted"
  /\ retry.item = t.item
  /\ retry.pc = "threw"
  /\ \A k \in DOMAIN retry.errors : IsRetryable(retry.errors[k])

\* C28: when the network call of an extraction fails with a retryable error
\* until the retries are exhausted, the record handed to the scheduler carries
\* the message of the last attempt; the item is set to error with that
\* message, nothing is saved for it, the other callbacks in flight are left
\* alone, the run is not interrupted, and when the item was the last of its
\* slice the items still pending are dispatched.
C28_RetriesExhausted ==
  /\ [](\A t \in tasks :
          Exhausted(t)
            => /\ retry.calls = AdapterMaxRetries + 1
               /\ t.data.status = "error"
               /\ t.data.error = retry.errors[AdapterMaxRetries + 1])
  /\ [][\A t \in tasks :
          (Exhausted(t) /\ ItemContinue(t))
            => /\ ReturnsUnsaved(t)
               /\ store[t.item] = 0
               /\ \A it \in Item(queue', t.item) :
                    it.status = "error" /\ it.error = t.data.error
               /\ \A u \in tasks \ {t} : u \in tasks'
               /\ ~LoopFault(logs')
               /\ (/\ ~\E u \in tasks \ {t} : u.run = t.run
                   /\ PendingItems(queueRef) # <<>>)
                    => /\ runs'[t.run].pc = "awaiting"
                       /\ Dispatched(t.run) # {}]_vars

\* with one item per slice, the first item is in error with the message of
\* its fourth failed attempt, which differs from the first, nothing was
\* saved for it, and the second item was extracted, saved and completed
C28_Witness ==
  /\ Len(queue) = 2
  /\ queue[1].status = "error"
  /\ queue[1].error = <<"Request", "timeout">>
  /\ debugLogs # <<>>
  /\ debugLogs[1][4] = <<"Failed", "to", "fetch">>
  /\ store[queue[1].id] = 0
  /\ queue[2].status = "completed"
  /\ store[queue[2].id] = 1
  /\ \E k \in DOMAIN logs : logs[k] = <<"Starting batch processing", 2, 1>>

\* the ids of the first n items of the sequence seq
FirstIds(seq, n) == {seq[k].id : k \in 1..Min(n, Len(seq))}

\* C29: each slice is exactly the first min(BATCH_SIZE, |pending|) items, in
\* queue order, of the items pending in the queue when the slice is built;
\* so no pending item is dispatched while an item enqueued before it is
\* still pending in the queue.
C29_SliceIsPendingPrefix ==
  [][\A r \in RunIds :
       Dispatched(r) # {}
         => {u.item : u \in Dispatched(r)}
              = FirstIds(PendingItems(queue), runs'[r].BATCH_SIZE)]_vars

\* the item of callback t is no longer in the queue
Removed(t) == Item(queue, t.item) = {}

StartLines == {"No pending files to process.", "Starting batch processing"}
Finished == <<"Processing queue finished.">>

\* a call of startProcessing passes the guard in this step
Starts(r) == runs[r].pc = "notStarted" /\ runs'[r].pc # "notStarted"

\* C31: a run clears the log at its start: the log then holds the run's
\* first line followed by nothing but lines of this step.  When the run
\* ends, with or without pending work and also after a loop fault, the last
\* line of the log is 'Processing queue finished.', and once no run is
\* active the log gets no further line.
C31_LogClearedAndFinished ==
  [][\A r \in RunIds :
       /\ Starts(r)
            => /\ logs' # <<>>
               /\ logs'[1][1] \in StartLines
               /\ \A k \in 2..Len(logs') :
                    \/ logs'[k] = Finished
                    \/ \E u \in Dispatched(r) : logs'[k] = <<"Analyzing", u.item>>
       /\ (runs[r].pc # "returned" /\ runs'[r].pc = "returned")
            => /\ logs' # <<>>
               /\ logs'[Len(logs')] = Finished
       /\ (runs[r].pc = "returned" /\ ActiveRuns = {}
             /\ \A q \in RunIds : ~Starts(q))
            => \/ logs' = logs
               \/ ClearQueue]_vars

\* C32: the slice size of a run is the limit read when the run started.
\* Saving another limit leaves the runs as they are; an active run keeps
\* its BATCH_SIZE; every slice has min(BATCH_SIZE, number of pending items)
\* items; and a run that starts reads the limit stored at that moment.
C32_LimitFixedPerRun ==
  [][/\ \A v \in LimitValues : SaveSettings(v) => (runs' = runs /\ tasks' = tasks)
     /\ \A r \in RunIds :
          /\ (RunActive(r) /\ runs'[r].pc # "returned")
               => runs'[r].BATCH_SIZE = runs[r].BATCH_SIZE
          /\ Starts(r)
               => /\ logs'[1][1] = "Starting batch processing"
                      => logs'[1][3] = BatchSize(concurrentApiCalls)
                  /\ runs'[r].pc # "returned"
                      => runs'[r].BATCH_SIZE = BatchSize(concurrentApiCalls)
          /\ Dispatched(r) # {}
               => Cardinality(Dispatched(r))
                    = Min(IF Starts(r) THEN BatchSize(concurrentApiCalls)
                          ELSE runs[r].BATCH_SIZE,
                          Len(PendingItems(queueRef)))]_vars

\* a run that read the limit 1 dispatched its second slice, of one item out
\* of two pending, after the stored limit had become 2
C32_Witness ==
  /\ Len(queue) = LimitItems
  /\ queue[1].status = "completed"
  /\ queue[2].status = "processing"
  /\ queue[3].status = "pending"
  /\ concurrentApiCalls = 2
  /\ nextRun = 1
  /\ runs[1].pc = "awaiting"
  /\ runs[1].BATCH_SIZE = 1
  /\ \E k \in DOMAIN logs : logs[k] = <<"Starting batch processing", 3, 1>>

C34_RecordStatusAndIdentity ==
  \A t \in tasks :
    t.pc = "extracted"
      => /\ t.data.status \in {"draft", "error"}
         /\ (t.data.status = "error") = ~Falsy(t.data.error)
         /\ t.data.id = "rid"
         /\ t.data.createdAt = 1


\* C35: once every concurrent call of addReceipt has resolved, the cache
\* getReceipts returns holds every record that was saved and is the content
\* of the object store, however the writes and the re-reads interleaved
Range(list) == {list[i] : i \in DOMAIN list}
InFlight == {c \in SaveIds : saves[c].pc \in {"opening", "waiting"}}
Saved == {saves[c].record : c \in {b \in 1..MaxSaves : saves[b].pc = "resolved"}}

C35_CacheIsStoreWhenResolved ==
  (InFlight = {} /\ Saved # {})
    => /\ Saved \subseteq Range(getReceipts)
       /\ Range(getReceipts) = objectStore
       /\ getReceipts = getAllReceipts(objectStore)

\* both calls resolved after their writes were queued back to back, ahead of
\* either re-read
C35_Witness ==
  /\ \A c \in 1..MaxSaves : saves[c].pc = "resolved"
  /\ \E k \in DOMAIN transactions :
       /\ k + 1 \in DOMAIN transactions
       /\ transactions[k].mode = "readwrite"
       /\ transactions[k + 1].mode = "readwrite"
  /\ Len(getReceipts) = MaxSaves

====
